---- MODULE Spec2Model ----
(***************************************************************************)
(* Majority-rule reordering of a community matrix, as computed by          *)
(* plot_com_order1 (rows only / columns only) and plot_com_order2 (rows,   *)
(* then columns) of plot2Dcluster.py.                                      *)
(*                                                                         *)
(* Python objects live in `heap` (a sequence of objects, a reference is a  *)
(* position in it); the functions' parameters and locals hold references.  *)
(* Line and label indices are 0-based as in the code; Python lists and     *)
(* numpy arrays are sequences, read with At(s, k).                         *)
(***************************************************************************)
EXTENDS Integers, Sequences, FiniteSets, TLC

\* Bounds of the explored inputs.
MaxRow == 3
MaxCol == 3
MaxCells == 6
MaxLabel == 1

VARIABLES
    heap,           \* the Python objects: matrices and name lists
    in_data,        \* the caller's matrix as it was when the call was made
    in_rownames,    \* the caller's row names as they were at the call
    in_colnames,    \* the caller's column names as they were at the call
    mode,           \* "row": plot_com_order1(row=True), "col": plot_com_order1(row=False), "both": plot_com_order2
    pc,             \* position in the called function
    err,            \* the exception that ended the call, "none" otherwise
    com_data,       \* reference held by the local com_data
    rownames,       \* reference held by the local rownames
    colnames,       \* reference held by the local colnames
    n_row, n_col,
    all_count, all_order, n_com,
    majority_row,   \* majority (row=True) / majority_row: label -> ordered items (line, count)
    majority_col,   \* majority (row=False) / majority_col
    unreach,
    row_order, col_order,
    i,              \* index of the walk over range(len(all_order))
    claim_row,      \* claim_row[p]: the label whose items the walk read when it appended row_order[p]
    claim_col,      \* claim_col[p]: the label whose items the walk read when it appended col_order[p]
    new_data,       \* reference held by new_data
    new_data2       \* reference held by new_data2

vars == <<heap, in_data, in_rownames, in_colnames, mode, pc, err, com_data, rownames,
          colnames, n_row, n_col, all_count, all_order, n_com, majority_row,
          majority_col, unreach, row_order, col_order, i, claim_row, claim_col,
          new_data, new_data2>>

----------------------------------------------------------------------------
\* Python / numpy primitives

\* range(n)
Range(n) == 0 .. (n - 1)

\* s[k] for a 0-based index k
At(s, k) == s[k + 1]

\* max(...) of a non-empty sequence of integers
MaxOf(s) == CHOOSE x \in {s[k] : k \in DOMAIN s} : \A k \in DOMAIN s : s[k] <= x

\* np.shape(com_data)[0]
NRows(m) == Len(m)

\* np.shape(com_data)[1], of a matrix with at least one row
NCols(m) == Len(m[1])

\* com_data[:,c]
Column(m, c) == [r \in 1 .. Len(m) |-> At(m[r], c)]

\* the rows com_data[i,:] for i in range(n_row)
RowsOf(m) == m

\* the columns com_data[:,i] for i in range(n_col)
ColumnsOf(m) == [c \in 1 .. NCols(m) |-> Column(m, c - 1)]

RECURSIVE Reshape(_)
\* com_data.reshape(com_data.size): the rows one after the other
Reshape(m) == IF m = <<>> THEN <<>> ELSE Head(m) \o Reshape(Tail(m))

HasNegative(data) == \E k \in DOMAIN data : data[k] < 0

\* np.bincount(data) for non-empty, non-negative data: the counts of
\* 0 .. max(data)
Bincount(data) ==
    [v \in 1 .. MaxOf(data) + 1 |-> Cardinality({k \in DOMAIN data : data[k] = v - 1})]

\* np.argsort(all_count): the indices in an order that sorts the counts
\* ascending. The default kind is not a stable sort, so the order of indices
\* with equal counts is whatever the build's sort produces.
Argsorts(c) ==
    {p \in [1 .. Len(c) -> Range(Len(c))] :
        /\ \A a, b \in DOMAIN p : a # b => p[a] # p[b]
        /\ \A a, b \in DOMAIN p : a < b => At(c, p[a]) <= At(c, p[b])}

NotReversed(s) == s

\* s[::-1]
Reversed(s) == [k \in 1 .. Len(s) |-> s[Len(s) + 1 - k]]

----------------------------------------------------------------------------
\* The majority rule

\* majority = {}; for i in range(n_com): majority[i] = {}
EmptyMajority(n) == [j \in 1 .. n |-> <<>>]

\* One iteration of "for i in range(n_row)": every label whose count in the
\* line equals the line's maximum gets the item (line index, count).
RecordLine(maj, line, idx) ==
    LET count == Bincount(line)
        linemax == MaxOf(count)
    IN  [j \in DOMAIN maj |->
            IF j <= Len(count) /\ count[j] = linemax
            THEN Append(maj[j], <<idx, count[j]>>)
            ELSE maj[j]]

RECURSIVE RecordLines(_, _, _)
\* The lines from index idx on, in ascending index.
RecordLines(maj, lines, idx) ==
    IF idx >= Len(lines) THEN maj
    ELSE RecordLines(RecordLine(maj, At(lines, idx), idx), lines, idx + 1)

\* The whole majority dictionary of an axis.
MajorityOf(lines, n) == RecordLines(EmptyMajority(n), lines, 0)

UnsortedItems(items) == items

RECURSIVE SortedItems(_)
\* sorted(temp1.items(), key=operator.itemgetter(1), reverse=True): by
\* descending count, items of equal count in their order in the dictionary.
SortedItems(items) ==
    IF items = <<>> THEN <<>>
    ELSE LET top == MaxOf([k \in DOMAIN items |-> items[k][2]])
             first == CHOOSE k \in DOMAIN items :
                         /\ items[k][2] = top
                         /\ \A l \in DOMAIN items : items[l][2] = top => k <= l
         IN  <<items[first]>> \o
             SortedItems([k \in 1 .. Len(items) - 1 |->
                             IF k < first THEN items[k] ELSE items[k + 1]])

RankedLabel(order, k) == At(order, k)

\* The label whose majority dictionary iteration k of the walk reads:
\* majority[i] with i the loop index.
WalkLabel(order, k) == k

ShortWalk(order) == Len(order) - 1

\* len(all_order): the number of iterations of the walk
WalkLength(order) == Len(order)

RECURSIVE ClaimItems(_, _, _)
\* for (m,n) in temp2: if (m in unreach): order.append(m); unreach.remove(m)
ClaimItems(items, st, label) ==
    IF items = <<>> THEN st
    ELSE LET m == Head(items)[1]
         IN  IF m \in st.unreach
             THEN ClaimItems(Tail(items),
                             [order |-> Append(st.order, m),
                              unreach |-> st.unreach \ {m},
                              claim |-> Append(st.claim, label)], label)
             ELSE ClaimItems(Tail(items), st, label)

\* One iteration of "for i in range(len(all_order))".
WalkStep(maj, order, k, st) ==
    LET temp1 == At(maj, WalkLabel(order, k))
    IN  IF Len(temp1) > 0
        THEN ClaimItems(SortedItems(temp1), st, WalkLabel(order, k))
        ELSE st

RECURSIVE WalkFrom(_, _, _, _)
WalkFrom(maj, order, k, st) ==
    IF k >= WalkLength(order) THEN st
    ELSE WalkFrom(maj, order, k + 1, WalkStep(maj, order, k, st))

\* The order one pass gives the lines of an axis.
AxisOrder(lines, order) ==
    WalkFrom(MajorityOf(lines, Len(order)), order, 0,
             [order |-> <<>>, unreach |-> Range(Len(lines)), claim |-> <<>>]).order

----------------------------------------------------------------------------
\* Operations that create objects

\* com_data.astype(int): a new array with the same integers
Astype(h, ref) == [heap |-> Append(h, h[ref]), ref |-> Len(h) + 1]

TakeRowsShifted(h, ref, order) ==
    [heap |-> Append(h, [k \in 1 .. Len(order) |-> At(h[ref], order[1])]),
     ref |-> Len(h) + 1]

\* com_data[row_order,:]: a new array
TakeRows(h, ref, order) ==
    [heap |-> Append(h, [k \in 1 .. Len(order) |-> At(h[ref], order[k])]),
     ref |-> Len(h) + 1]

\* com_data[:,col_order]: a new array
TakeCols(h, ref, order) ==
    [heap |-> Append(h, [r \in 1 .. Len(h[ref]) |->
                            [k \in 1 .. Len(order) |-> At(h[ref][r], order[k])]]),
     ref |-> Len(h) + 1]

ReorderInPlace(h, ref, order) ==
    [heap |-> [h EXCEPT ![ref] = [k \in 1 .. Len(order) |-> At(h[ref], order[k])]],
     ref |-> ref]

ReorderByPosition(h, ref, order) ==
    [heap |-> Append(h, [k \in 1 .. Len(order) |-> h[ref][k]]),
     ref |-> Len(h) + 1]

\* [rownames[i] for i in row_order]: a new list
Reorder(h, ref, order) ==
    [heap |-> Append(h, [k \in 1 .. Len(order) |-> At(h[ref], order[k])]),
     ref |-> Len(h) + 1]

\* rownames[i] raises IndexError for an index past the end of the list
IndexError(h, ref, order) == \E k \in DOMAIN order : order[k] >= Len(h[ref])

----------------------------------------------------------------------------
\* Inputs

Modes == {"row", "col", "both"}

\* the names of n lines, pairwise different
Names(prefix, n) == [k \in 1 .. n |-> <<prefix, k - 1>>]

\* the matrix of the worked example
ExampleMatrix == <<<<0, 0, 1>>, <<1, 1, 0>>, <<0, 0, 0>>>>

\* the matrices of at most MaxCells cells with the given numbers of rows and
\* columns and the given entries
MatricesOver(rows, cols, labels) ==
    UNION {[1 .. sh[1] -> [1 .. sh[2] -> labels]] :
              sh \in {x \in rows \X cols : x[1] * x[2] <= MaxCells}}

\* inputs that meet the documented preconditions: the matrices within the
\* bounds and the worked example
ValidInputs ==
    {[data |-> m, rownames |-> Names("R", NRows(m)), colnames |-> Names("C", NCols(m)),
      mode |-> md] :
        m \in MatricesOver(1 .. MaxRow, 1 .. MaxCol, 0 .. MaxLabel) \cup {ExampleMatrix},
        md \in Modes}

Deltas == {-1, 0, 1}

\* inputs with and without precondition violations: negative labels, name
\* lists one shorter or one longer than their axis
AnyInputs ==
    {[data |-> m, rownames |-> Names("R", NRows(m) + dr),
      colnames |-> Names("C", NCols(m) + dc), mode |-> md] :
        m \in MatricesOver(1 .. MaxRow, 1 .. MaxCol, -1 .. MaxLabel),
        dr \in Deltas, dc \in Deltas, md \in Modes}

----------------------------------------------------------------------------
\* The state machine

Init ==
    /\ heap = <<>>
    /\ in_data = <<>> /\ in_rownames = <<>> /\ in_colnames = <<>>
    /\ mode = "none" /\ pc = "idle" /\ err = "none"
    /\ com_data = 0 /\ rownames = 0 /\ colnames = 0
    /\ n_row = 0 /\ n_col = 0
    /\ all_count = <<>> /\ all_order = <<>> /\ n_com = 0
    /\ majority_row = <<>> /\ majority_col = <<>>
    /\ unreach = {} /\ row_order = <<>> /\ col_order = <<>> /\ i = 0
    /\ claim_row = <<>> /\ claim_col = <<>>
    /\ new_data = 0 /\ new_data2 = 0

\* The caller passes a matrix and two name lists to one of the functions.
DoCall(inp) ==
    /\ heap' = <<inp.data, inp.rownames, inp.colnames>>
    /\ in_data' = inp.data /\ in_rownames' = inp.rownames /\ in_colnames' = inp.colnames
    /\ com_data' = 1 /\ rownames' = 2 /\ colnames' = 3
    /\ mode' = inp.mode
    /\ pc' = "rank"
    /\ UNCHANGED <<err, n_row, n_col, all_count, all_order, n_com, majority_row,
                   majority_col, unreach, row_order, col_order, i, claim_row,
                   claim_col, new_data, new_data2>>

Call == pc = "idle" /\ \E inp \in ValidInputs : DoCall(inp)

CallAny == pc = "idle" /\ \E inp \in AnyInputs : DoCall(inp)

\* The exception leaves the function: nothing more is computed.
Raise(e) == pc' = "error" /\ err' = e

\* "Get the basic info of the community array": the copy as integers, the
\* shape, the frequency of each community and the ranking list.
Rank ==
    /\ pc = "rank"
    /\ LET a == Astype(heap, com_data)
           data == Reshape(a.heap[a.ref])
       IN  /\ heap' = a.heap
           /\ com_data' = a.ref
           /\ n_row' = NRows(a.heap[a.ref])
           /\ n_col' = NCols(a.heap[a.ref])
           /\ IF HasNegative(data)
              THEN /\ Raise("ValueError")
                   /\ UNCHANGED <<all_count, all_order, n_com>>
              ELSE /\ all_count' = Bincount(data)
                   /\ \E p \in Argsorts(Bincount(data)) : all_order' = Reversed(p)
                   /\ n_com' = Len(Bincount(data))
                   /\ pc' = IF mode = "col" THEN "majority_col" ELSE "majority_row"
                   /\ UNCHANGED err
    /\ UNCHANGED <<in_data, in_rownames, in_colnames, mode, rownames, colnames,
                   majority_row, majority_col, unreach, row_order, col_order, i,
                   claim_row, claim_col, new_data, new_data2>>

\* "For each row, the most frequent communities are stored", then the walk's
\* initial state.
MajorityRows ==
    /\ pc = "majority_row"
    /\ majority_row' = MajorityOf(RowsOf(heap[com_data]), n_com)
    /\ unreach' = Range(n_row)
    /\ row_order' = <<>>
    /\ claim_row' = <<>>
    /\ i' = 0
    /\ pc' = "walk_row"
    /\ UNCHANGED <<err, heap, in_data, in_rownames, in_colnames, mode, com_data, rownames,
                   colnames, n_row, n_col, all_count, all_order, n_com, majority_col,
                   col_order, claim_col, new_data, new_data2>>

\* One iteration of the walk over the labels, rows.
WalkRows ==
    /\ pc = "walk_row"
    /\ i < WalkLength(all_order)
    /\ LET st == WalkStep(majority_row, all_order, i,
                          [order |-> row_order, unreach |-> unreach, claim |-> claim_row])
       IN  /\ row_order' = st.order
           /\ unreach' = st.unreach
           /\ claim_row' = st.claim
    /\ i' = i + 1
    /\ UNCHANGED <<heap, in_data, in_rownames, in_colnames, mode, pc, err, com_data,
                   rownames, colnames, n_row, n_col, all_count, all_order, n_com,
                   majority_row, majority_col, col_order, claim_col, new_data, new_data2>>

\* new_data = com_data[row_order,:]
ApplyRows ==
    /\ pc = "walk_row"
    /\ i >= WalkLength(all_order)
    /\ LET t == TakeRows(heap, com_data, row_order)
       IN  heap' = t.heap /\ new_data' = t.ref
    /\ pc' = IF mode = "both" THEN "majority_col" ELSE "names"
    /\ UNCHANGED <<in_data, in_rownames, in_colnames, mode, err, com_data, rownames,
                   colnames, n_row, n_col, all_count, all_order, n_com, majority_row,
                   majority_col, unreach, row_order, col_order, i, claim_row, claim_col,
                   new_data2>>

\* "For each column, the most frequent communities are stored" (of com_data,
\* in plot_com_order2 too), then the walk's initial state.
MajorityCols ==
    /\ pc = "majority_col"
    /\ majority_col' = MajorityOf(ColumnsOf(heap[com_data]), n_com)
    /\ unreach' = Range(n_col)
    /\ col_order' = <<>>
    /\ claim_col' = <<>>
    /\ i' = 0
    /\ pc' = "walk_col"
    /\ UNCHANGED <<err, heap, in_data, in_rownames, in_colnames, mode, com_data, rownames,
                   colnames, n_row, n_col, all_count, all_order, n_com, majority_row,
                   row_order, claim_row, new_data, new_data2>>

\* One iteration of the walk over the labels, columns.
WalkCols ==
    /\ pc = "walk_col"
    /\ i < WalkLength(all_order)
    /\ LET st == WalkStep(majority_col, all_order, i,
                          [order |-> col_order, unreach |-> unreach, claim |-> claim_col])
       IN  /\ col_order' = st.order
           /\ unreach' = st.unreach
           /\ claim_col' = st.claim
    /\ i' = i + 1
    /\ UNCHANGED <<heap, in_data, in_rownames, in_colnames, mode, pc, err, com_data,
                   rownames, colnames, n_row, n_col, all_count, all_order, n_com,
                   majority_row, majority_col, row_order, claim_row, new_data, new_data2>>

\* new_data = com_data[:,col_order] (plot_com_order1),
\* new_data2 = new_data[:,col_order] (plot_com_order2)
ApplyCols ==
    /\ pc = "walk_col"
    /\ i >= WalkLength(all_order)
    /\ IF mode = "both"
       THEN LET t == TakeCols(heap, new_data, col_order)
            IN  heap' = t.heap /\ new_data2' = t.ref /\ UNCHANGED new_data
       ELSE LET t == TakeCols(heap, com_data, col_order)
            IN  heap' = t.heap /\ new_data' = t.ref /\ UNCHANGED new_data2
    /\ pc' = "names"
    /\ UNCHANGED <<in_data, in_rownames, in_colnames, mode, err, com_data, rownames,
                   colnames, n_row, n_col, all_count, all_order, n_com, majority_row,
                   majority_col, unreach, row_order, col_order, i, claim_row, claim_col>>

\* "Reorder the row names or the column names" (plot_com_order1), "Reorder the
\* row names and the column names" (plot_com_order2); the function then plots.
Rename ==
    /\ pc = "names"
    /\ IF mode = "row"
       THEN IF IndexError(heap, rownames, row_order)
            THEN Raise("IndexError") /\ UNCHANGED <<heap, rownames, colnames>>
            ELSE LET r == Reorder(heap, rownames, row_order)
                 IN  /\ heap' = r.heap /\ rownames' = r.ref
                     /\ pc' = "done" /\ UNCHANGED <<err, colnames>>
       ELSE IF mode = "col"
       THEN IF IndexError(heap, colnames, col_order)
            THEN Raise("IndexError") /\ UNCHANGED <<heap, rownames, colnames>>
            ELSE LET c == Reorder(heap, colnames, col_order)
                 IN  /\ heap' = c.heap /\ colnames' = c.ref
                     /\ pc' = "done" /\ UNCHANGED <<err, rownames>>
       ELSE IF IndexError(heap, rownames, row_order)
            THEN Raise("IndexError") /\ UNCHANGED <<heap, rownames, colnames>>
            ELSE LET r == Reorder(heap, rownames, row_order)
                 IN  IF IndexError(r.heap, colnames, col_order)
                     THEN /\ Raise("IndexError")
                          /\ heap' = r.heap /\ rownames' = r.ref
                          /\ UNCHANGED colnames
                     ELSE LET c == Reorder(r.heap, colnames, col_order)
                          IN  /\ heap' = c.heap /\ rownames' = r.ref /\ colnames' = c.ref
                              /\ pc' = "done" /\ UNCHANGED err
    /\ UNCHANGED <<in_data, in_rownames, in_colnames, mode, com_data, n_row, n_col,
                   all_count, all_order, n_com, majority_row, majority_col, unreach,
                   row_order, col_order, i, claim_row, claim_col, new_data, new_data2>>

Run ==
    \/ Rank
    \/ MajorityRows
    \/ WalkRows
    \/ ApplyRows
    \/ MajorityCols
    \/ WalkCols
    \/ ApplyCols
    \/ Rename

Next == Call \/ Run

NextAny == CallAny \/ Run

\* calls whose inputs meet the preconditions
Spec == Init /\ [][Next]_vars

\* calls with any input
SpecAny == Init /\ [][NextAny]_vars

----------------------------------------------------------------------------
\* Vocabulary of the properties

\* the row walk has ended and row_order is final
RowPassDone ==
    /\ mode \in {"row", "both"}
    /\ \/ pc = "walk_row" /\ i >= Len(all_order)
       \/ pc \in {"majority_col", "walk_col", "names", "done"}

\* the column walk has ended and col_order is final
ColPassDone ==
    /\ mode \in {"col", "both"}
    /\ \/ pc = "walk_col" /\ i >= Len(all_order)
       \/ pc \in {"names", "done"}

IsBijection(order, n) ==
    /\ Len(order) = n
    /\ {order[k] : k \in DOMAIN order} = Range(n)

Identity(n) == [k \in 1 .. n |-> k - 1]

\* the number of cells of a line that hold the label
CountIn(line, label) == Cardinality({k \in DOMAIN line : line[k] = label})

LabelsIn(line) == {line[k] : k \in DOMAIN line}

\* the labels that reach the highest count of the line
MajorityLabels(line) ==
    {l \in LabelsIn(line) : \A l2 \in LabelsIn(line) : CountIn(line, l2) <= CountIn(line, l)}

\* the matrix the function plots
Plotted == heap[IF mode = "both" THEN new_data2 ELSE new_data]

\* C1: on every non-empty matrix of non-negative labels the row pass, the
\* column pass and both passes of plot_com_order2 end without an exception,
\* with unreach empty when a walk ends and row_order / col_order a bijection
\* over 0..axis_size-1.
C1_Bijection ==
    /\ pc # "error" /\ err = "none"
    /\ (pc = "walk_row" /\ i >= Len(all_order)) => unreach = {}
    /\ (pc = "walk_col" /\ i >= Len(all_order)) => unreach = {}
    /\ RowPassDone => IsBijection(row_order, NRows(in_data))
    /\ ColPassDone => IsBijection(col_order, NCols(in_data))

C1_Witness ==
    /\ pc = "done" /\ mode = "both"
    /\ row_order # Identity(n_row)
    /\ col_order # Identity(n_col)

\* Stated on the global counts, so that it does not depend on how the
\* ranking list orders labels of equal count.
ClaimedByRank(order, claim, lines) ==
    /\ \A p \in DOMAIN order :
          \A l \in MajorityLabels(At(lines, order[p])) :
              At(all_count, claim[p]) >= At(all_count, l)
    /\ \A p, q \in DOMAIN order :
          p < q => At(all_count, claim[p]) >= At(all_count, claim[q])

\* C2: the walk visits the labels in ranking order, most frequent first: a
\* line is claimed by the best ranked of its majority labels, and the lines
\* of a better ranked label all precede the lines of a worse ranked one.
C2_RankOrder ==
    /\ RowPassDone => ClaimedByRank(row_order, claim_row, RowsOf(in_data))
    /\ ColPassDone => ClaimedByRank(col_order, claim_col, ColumnsOf(in_data))

Ranked == pc \notin {"idle", "rank", "error"}

\* C3 (amended): the ranking list is a permutation of 0..n_com-1 with
\* n_com = max_label+1, in non-increasing order of the global count.
C3_Ranking ==
    Ranked =>
        /\ n_com = MaxOf(Reshape(in_data)) + 1
        /\ IsBijection(all_order, n_com)
        /\ \A l \in Range(n_com) : At(all_count, l) = CountIn(Reshape(in_data), l)
        /\ \A a, b \in DOMAIN all_order :
              a < b => At(all_count, all_order[a]) >= At(all_count, all_order[b])

\* C3: as above, and of two labels with the same global count the smaller
\* label comes first.
C3_TiesAscending ==
    /\ C3_Ranking
    /\ Ranked =>
          \A a, b \in DOMAIN all_order :
              (a < b /\ At(all_count, all_order[a]) = At(all_count, all_order[b]))
                  => all_order[a] < all_order[b]

C3_Witness ==
    /\ pc = "done"
    /\ n_com = 2
    /\ At(all_count, 1) > At(all_count, 0)
    /\ all_order = <<1, 0>>

GroupSorted(order, claim, lines) ==
    \A p, q \in DOMAIN order :
        (p < q /\ claim[p] = claim[q]) =>
            LET cp == CountIn(At(lines, order[p]), claim[p])
                cq == CountIn(At(lines, order[q]), claim[q])
            IN  cp > cq \/ (cp = cq /\ order[p] < order[q])

\* C4: within the lines claimed by one label the permutation goes by
\* non-increasing count of that label in the line, lines of equal count in
\* ascending line index; the worked example's row permutation is [2,0,1].
C4_GroupOrder ==
    /\ RowPassDone => GroupSorted(row_order, claim_row, RowsOf(in_data))
    /\ ColPassDone => GroupSorted(col_order, claim_col, ColumnsOf(in_data))
    /\ (RowPassDone /\ in_data = ExampleMatrix) => row_order = <<2, 0, 1>>

C4_Witness ==
    /\ pc = "done" /\ mode = "row"
    /\ in_data = ExampleMatrix
    /\ claim_row = <<0, 0, 1>>

\* C5: names and matrix lines stay paired under the same permutation; in
\* combined mode the plotted cell (i,j) is the input cell
\* (row_permutation[i], col_permutation[j]).
C5_Paired ==
    pc = "done" =>
        /\ mode \in {"row", "both"} =>
              /\ Len(heap[rownames]) = Len(row_order)
              /\ \A k \in DOMAIN row_order :
                    heap[rownames][k] = At(in_rownames, row_order[k])
        /\ mode \in {"col", "both"} =>
              /\ Len(heap[colnames]) = Len(col_order)
              /\ \A k \in DOMAIN col_order :
                    heap[colnames][k] = At(in_colnames, col_order[k])
        /\ mode = "row" =>
              /\ Len(Plotted) = Len(row_order)
              /\ \A k \in DOMAIN row_order : Plotted[k] = At(in_data, row_order[k])
        /\ mode = "col" =>
              /\ Len(Plotted) = NRows(in_data)
              /\ \A r \in DOMAIN in_data :
                    /\ Len(Plotted[r]) = Len(col_order)
                    /\ \A k \in DOMAIN col_order :
                          Plotted[r][k] = At(in_data[r], col_order[k])
        /\ mode = "both" =>
              /\ Len(Plotted) = Len(row_order)
              /\ \A a \in DOMAIN row_order :
                    /\ Len(Plotted[a]) = Len(col_order)
                    /\ \A b \in DOMAIN col_order :
                          Plotted[a][b] = At(At(in_data, row_order[a]), col_order[b])

C5_Witness ==
    /\ pc = "done" /\ mode = "both"
    /\ row_order # Identity(n_row)
    /\ col_order # Identity(n_col)
    /\ heap[rownames] # in_rownames
    /\ heap[colnames] # in_colnames

\* C6: in combined mode the column permutation is the one the column pass
\* yields on the row-permuted matrix, which is the one it yields on the
\* original matrix, which is the one the columns-only operation yields,
\* whatever order the ranking list gives labels of equal count.
C6_ColumnPass ==
    \A p \in Argsorts(all_count) :
        /\ (mode = "both" /\ pc \in {"names", "done"}) =>
              /\ col_order = AxisOrder(ColumnsOf(heap[new_data]), Reversed(p))
              /\ col_order = AxisOrder(ColumnsOf(in_data), Reversed(p))
        /\ (mode = "col" /\ pc \in {"names", "done"}) =>
              col_order = AxisOrder(ColumnsOf(in_data), Reversed(p))

C6_Witness ==
    /\ pc = "done" /\ mode = "both"
    /\ heap[new_data] # in_data
    /\ col_order # Identity(n_col)
    /\ \E c \in DOMAIN ColumnsOf(in_data) :
           ColumnsOf(in_data)[c] # ColumnsOf(heap[new_data])[c]

InputValid ==
    /\ ~HasNegative(Reshape(in_data))
    /\ Len(in_rownames) = NRows(in_data)
    /\ Len(in_colnames) = NCols(in_data)

\* C7: a precondition violation is reported as an error before any ranking
\* or reordering is computed, and no partial permutation, matrix or name
\* list is produced.
C7_ValidatedFirst ==
    (pc \notin {"idle", "rank"} /\ ~InputValid) =>
        /\ pc = "error"
        /\ all_order = <<>> /\ row_order = <<>> /\ col_order = <<>>
        /\ new_data = 0 /\ new_data2 = 0
        /\ rownames = 2 /\ colnames = 3

\* C8: the caller's matrix and name lists hold after the call what they held
\* before it; the plotted matrix and the reordered names are new objects.
C8_Frame ==
    pc # "idle" =>
        /\ heap[1] = in_data
        /\ heap[2] = in_rownames
        /\ heap[3] = in_colnames
        /\ pc = "done" =>
              /\ com_data > 3
              /\ new_data > 3
              /\ mode = "both" => new_data2 > 3
              /\ mode \in {"row", "both"} => rownames > 3
              /\ mode \in {"col", "both"} => colnames > 3

C8_Witness ==
    /\ pc = "done" /\ mode = "row"
    /\ heap[rownames] # in_rownames
    /\ heap[new_data] # in_data

\* C9: the count of every label in the plotted matrix is its count in the
\* input, so the frequency table is the same and the ranking list computed
\* on the input is a ranking list of the plotted matrix.
C9_Frequencies ==
    pc = "done" =>
        /\ \A l \in (0 .. MaxLabel) \cup LabelsIn(Reshape(Plotted)) :
              CountIn(Reshape(Plotted), l) = CountIn(Reshape(in_data), l)
        /\ Bincount(Reshape(Plotted)) = all_count
        /\ all_order \in {Reversed(p) : p \in Argsorts(Bincount(Reshape(Plotted)))}

C9_Witness ==
    /\ pc = "done" /\ mode = "both"
    /\ Plotted # in_data
    /\ n_com = 2
    /\ At(all_count, 0) # At(all_count, 1)

\* the smallest of the majority labels of a line
SmallestMajority(line) ==
    CHOOSE l \in MajorityLabels(line) : \A l2 \in MajorityLabels(line) : l <= l2

\* line x comes before line y: smaller smallest majority label, then higher
\* count of it, then smaller index
Before(lines, x, y) ==
    LET lx == SmallestMajority(At(lines, x))
        ly == SmallestMajority(At(lines, y))
        cx == CountIn(At(lines, x), lx)
        cy == CountIn(At(lines, y), ly)
    IN  \/ lx < ly
        \/ lx = ly /\ cx > cy
        \/ lx = ly /\ cx = cy /\ x < y

\* the permutation that depends on the per-line counts only
ByLabelValue(lines) ==
    [p \in 1 .. Len(lines) |->
        CHOOSE x \in Range(Len(lines)) :
            Cardinality({y \in Range(Len(lines)) : Before(lines, y, x)}) = p - 1]

====
